---- MODULE Spec2Model ----
(***************************************************************************)
(* ai-factory core: project configuration migration (core/config.ts),      *)
(* skill installation (core/installer.ts) and MCP provisioning             *)
(* (core/mcp.ts).  JSON objects are functions from the keys they hold to   *)
(* values: a key the object does not hold is outside the DOMAIN.           *)
(***************************************************************************)
EXTENDS Integers, Sequences, FiniteSets, TLC

VARIABLES
  configFile,   \* .ai-factory.json: [exists |-> FALSE] or [exists |-> TRUE, json |-> object]
  loaded,       \* outcome of the last loadConfig call
  cfgInput,     \* the object the last loadConfig call handed to migrateConfig
  cfgOps,       \* the last two configuration operations, oldest first
  projectAgent, \* the agent the project is set up for: the agentId of every call
  mcpTemplates, \* MCP server template files of the package, by server key
  settingsFiles,\* the project's agent settings files, by path
  dirs,         \* the project's directories that exist
  settings0,    \* settingsFiles before the first configureMcp call
  mcpPc,        \* position of each configureMcp invocation
  mcpCall,      \* locals of each configureMcp invocation
  mcpTouched,   \* server keys a configureMcp invocation has written so far
  packageSkills,\* the package's skill source directories: what their SKILL.md holds
  packageDirs,  \* listDirectories of the package's skills directory
  templateDirs, \* the package's _templates/<stack> directories: their listing
  projectFiles, \* files the installer has written into the project, by path
  instPc,       \* position of the installSkills invocation
  instCall      \* locals of the installSkills invocation

cfgVars == <<configFile, loaded, cfgInput, cfgOps>>

mcpVars == <<projectAgent, mcpTemplates, settingsFiles, dirs, settings0, mcpPc, mcpCall, mcpTouched>>

instVars == <<packageSkills, packageDirs, templateDirs, projectFiles, instPc, instCall>>

vars == <<cfgVars, mcpVars, instVars>>

(***************************************************************************)
(* JSON helpers                                                            *)
(***************************************************************************)
EmptyObject == <<>>

Field(k, v) == [x \in {k} |-> v]

OptField(k, S) == {EmptyObject} \cup {Field(k, v) : v \in S}

\* Object spread {...a, ...b}: b's keys win.
Spread(a, b) ==
  [k \in DOMAIN a \cup DOMAIN b |-> IF k \in DOMAIN b THEN b[k] ELSE a[k]]

Has(obj, k) == k \in DOMAIN obj

(***************************************************************************)
(* Filesystem helpers (utils/fs.ts, an external collaborator).  A file is  *)
(* absent, present with a JSON document, or present without one           *)
(* (readJsonFile yields null for it, as for an absent file).               *)
(***************************************************************************)
NoFile == [exists |-> FALSE]

JsonFile(obj) == [exists |-> TRUE, json |-> obj]

UnparsableFile == [exists |-> TRUE]

Null == [isNull |-> TRUE]

readJsonFile(file) ==
  IF file.exists /\ Has(file, "json") THEN [isNull |-> FALSE, value |-> file.json] ELSE Null

fileExists(file) == file.exists

ensureDir(existing, dir) == existing \cup {dir}

(***************************************************************************)
(* Agent profile registry (core/agents.ts, an external collaborator).      *)
(* One representative profile for every combination of the capability      *)
(* fields the callers branch on.  settingsFile "" stands for null.         *)
(***************************************************************************)
AGENTS ==
  [claude   |-> [configDir |-> ".claude",   skillsDir |-> ".claude/skills",
                 settingsFile |-> ".mcp.json",        supportsMcp |-> TRUE],
   opencode |-> [configDir |-> ".opencode", skillsDir |-> ".opencode/skills",
                 settingsFile |-> "opencode.json",    supportsMcp |-> TRUE],
   cursor   |-> [configDir |-> ".cursor",   skillsDir |-> ".cursor/skills",
                 settingsFile |-> ".cursor/mcp.json", supportsMcp |-> TRUE],
   codex    |-> [configDir |-> ".codex",    skillsDir |-> ".codex/skills",
                 settingsFile |-> "",                 supportsMcp |-> FALSE],
   nomcp    |-> [configDir |-> ".nomcp",    skillsDir |-> ".nomcp/skills",
                 settingsFile |-> ".nomcp/settings.json", supportsMcp |-> FALSE],
   nofile   |-> [configDir |-> ".nofile",   skillsDir |-> ".nofile/skills",
                 settingsFile |-> "",                 supportsMcp |-> TRUE]]

\* getAgentConfig(id) throws for an id the registry does not hold.
KnownAgent(agentId) == agentId \in DOMAIN AGENTS

getAgentConfig(agentId) == AGENTS[agentId]

(***************************************************************************)
(* core/config.ts                                                          *)
(***************************************************************************)
CURRENT_VERSION == "pkg.version"

Undefined == "<undefined>"

Threw == [threw |-> TRUE]

McpFlags == {"github", "filesystem", "postgres", "chromeDevtools"}

SchemaKeys == {"version", "agent", "skillsDir", "installedSkills", "mcp"}

\* A JSON array of skill keys, or a value that is not an array.
ArrayOf(items) == [isArray |-> TRUE, items |-> items]

NotAnArray == [isArray |-> FALSE, items |-> <<>>]

resolveAgentIdNoCatch(agentId) ==
  IF agentId = Undefined \/ agentId = "" THEN "claude" ELSE agentId

resolveAgentId(agentId) ==
  IF agentId = Undefined \/ agentId = ""
    THEN "claude"
    ELSE IF KnownAgent(agentId) THEN agentId ELSE "claude"

createDefaultConfig(agentId) ==
  LET resolvedAgentId == resolveAgentId(agentId)
  IN IF ~KnownAgent(resolvedAgentId)
       THEN Threw
       ELSE [version         |-> CURRENT_VERSION,
             agent           |-> resolvedAgentId,
             skillsDir       |-> getAgentConfig(resolvedAgentId).skillsDir,
             installedSkills |-> ArrayOf(<<>>),
             mcp             |-> [f \in McpFlags |-> FALSE]]

\* mcp: config.mcp ?? defaults.mcp, the sibling flags not merged
migrateMcpReplace(defaults, config) ==
  IF Has(config, "mcp") THEN config.mcp ELSE defaults.mcp

\* mcp: {...defaults.mcp, ...(config.mcp ?? {})}
migrateMcp(defaults, config) ==
  Spread(defaults.mcp, IF Has(config, "mcp") THEN config.mcp ELSE EmptyObject)

migrateConfig(config) ==
  LET resolvedAgentId == resolveAgentId(IF Has(config, "agent") THEN config.agent ELSE Undefined)
      defaults == createDefaultConfig(resolvedAgentId)
  IN IF defaults = Threw
       THEN Threw
       ELSE Spread(Spread(defaults, config),
                   [agent           |-> resolvedAgentId,
                    installedSkills |->
                      IF Has(config, "installedSkills") /\ config.installedSkills.isArray
                        THEN config.installedSkills
                        ELSE defaults.installedSkills,
                    mcp             |-> migrateMcp(defaults, config)])

loadConfig(file) ==
  LET loadedConfig == readJsonFile(file)
  IN IF loadedConfig = Null
       THEN [kind |-> "null"]
       ELSE LET migrated == migrateConfig(loadedConfig.value)
            IN IF migrated = Threw THEN [kind |-> "threw"]
                                   ELSE [kind |-> "config", value |-> migrated]

(***************************************************************************)
(* Stored configurations: outdated, hand-edited or written by saveConfig.  *)
(***************************************************************************)
StoredVersions == {"0.0.1", CURRENT_VERSION}

StoredAgents == {"claude", "opencode", "codex", "no-such-agent", ""}

StoredSkillLists == {ArrayOf(<<>>), ArrayOf(<<"s1", "web/t1">>), NotAnArray}

StoredMcp == UNION {[D -> BOOLEAN] : D \in SUBSET McpFlags}

PartialConfigs ==
  { Spread(Spread(Spread(Spread(Spread(v, a), d), i), m), x) :
      v \in OptField("version", StoredVersions),
      a \in OptField("agent", StoredAgents),
      d \in OptField("skillsDir", {"custom/skills"}),
      i \in OptField("installedSkills", StoredSkillLists),
      m \in OptField("mcp", StoredMcp),
      x \in OptField("legacyField", {"kept-by-hand"}) }

(***************************************************************************)
(* Loading and saving the project configuration                            *)
(***************************************************************************)
\* The operations a property needs to tell a load that follows a save
LastTwo(ops) == IF Len(ops) > 2 THEN Tail(ops) ELSE ops

CfgQuiet ==
  /\ configFile = NoFile
  /\ loaded = [kind |-> "none"]
  /\ cfgInput = EmptyObject
  /\ cfgOps = <<>>

CfgInit ==
  /\ configFile \in {NoFile, UnparsableFile} \cup {JsonFile(c) : c \in PartialConfigs}
  /\ loaded = [kind |-> "none"]
  /\ cfgInput = EmptyObject
  /\ cfgOps = <<>>

\* loadConfig(projectDir)
LoadConfig ==
  /\ loaded' = loadConfig(configFile)
  /\ cfgInput' = IF readJsonFile(configFile) # Null THEN configFile.json ELSE EmptyObject
  /\ cfgOps' = LastTwo(cfgOps \o <<"load">>)
  /\ UNCHANGED configFile
  /\ UNCHANGED mcpVars
  /\ UNCHANGED instVars

\* saveConfig(projectDir, config) with the configuration loadConfig returned
SaveConfig ==
  /\ loaded.kind = "config"
  /\ configFile' = JsonFile(loaded.value)
  /\ cfgOps' = LastTwo(cfgOps \o <<"save">>)
  /\ UNCHANGED <<loaded, cfgInput>>
  /\ UNCHANGED mcpVars
  /\ UNCHANGED instVars

CfgNext == LoadConfig \/ SaveConfig

(***************************************************************************)
(* core/mcp.ts                                                             *)
(***************************************************************************)
\* Object.keys(MCP_SERVER_FILES), in insertion order
MCP_SERVER_KEYS == <<"github", "filesystem", "postgres", "chromeDevtools">>

McpServerKeys == {MCP_SERVER_KEYS[i] : i \in DOMAIN MCP_SERVER_KEYS}

toOpenCodeFormatNoArgs(config) ==
  LET result == [type |-> "local", command |-> <<config.command>>]
  IN IF Has(config, "env") THEN Spread(result, Field("environment", config.env)) ELSE result

toOpenCodeFormat(config) ==
  LET command == <<config.command>> \o (IF Has(config, "args") THEN config.args ELSE <<>>)
      result == [type |-> "local", command |-> command]
  IN IF Has(config, "env") THEN Spread(result, Field("environment", config.env)) ELSE result

\* The [key, template] pairs of the flags that are set and whose template file reads.
RECURSIVE selectFrom(_, _, _)
selectFrom(options, templates, i) ==
  IF i > Len(MCP_SERVER_KEYS)
    THEN <<>>
    ELSE LET key == MCP_SERVER_KEYS[i]
             template == readJsonFile(templates[key])
             rest == selectFrom(options, templates, i + 1)
         IN IF ~options[key] THEN rest
            ELSE IF template # Null THEN <<(<<key, template.value>>)>> \o rest
            ELSE rest

\* The flags are not consulted: every template that reads is selected
getSelectedServerTemplatesAll(options, templates) ==
  selectFrom([k \in McpServerKeys |-> TRUE], templates, 1)

getSelectedServerTemplates(options, templates) == selectFrom(options, templates, 1)

\* if (!agent.supportsMcp || !agent.settingsFile) return []
McpGateSettingsFileOnly(agent) == agent.settingsFile = ""

McpGate(agent) == ~agent.supportsMcp \/ agent.settingsFile = ""

\* if (selectedTemplates.length === 0) return configuredServers
NoTemplateSelectedNever(selectedTemplates) == FALSE

NoTemplateSelected(selectedTemplates) == Len(selectedTemplates) = 0

\* path.dirname(settingsPath), relative to projectDir
PathDirname(settingsPath) ==
  CASE settingsPath = ".cursor/mcp.json"     -> ".cursor"
    [] settingsPath = ".nomcp/settings.json" -> ".nomcp"
    [] OTHER                                 -> "."

McpMapKey(isOpenCode) == IF isOpenCode THEN "mcp" ELSE "mcpServers"

\* let settings = {}; if (await fileExists(p)) { existing = readJsonFile(p); if (existing) settings = existing }
readSettings(file) ==
  IF fileExists(file)
    THEN LET existing == readJsonFile(file)
         IN IF existing # Null THEN existing.value ELSE EmptyObject
    ELSE EmptyObject

\* if (!settings.mcp) settings.mcp = {}
ensureMcpMapReset(settings, mapKey) == Spread(settings, Field(mapKey, EmptyObject))

ensureMcpMap(settings, mapKey) ==
  IF Has(settings, mapKey) THEN settings ELSE Spread(settings, Field(mapKey, EmptyObject))

\* for (const [key, template] of selectedTemplates) map[key] = entry
RECURSIVE storeTemplates(_, _, _, _)
storeTemplates(map, selectedTemplates, i, isOpenCode) ==
  IF i > Len(selectedTemplates)
    THEN map
    ELSE LET key == selectedTemplates[i][1]
             template == selectedTemplates[i][2]
             entry == IF isOpenCode THEN toOpenCodeFormat(template) ELSE template
         IN storeTemplates(Spread(map, Field(key, entry)), selectedTemplates, i + 1, isOpenCode)

mergeServers(settings, selectedTemplates, isOpenCode) ==
  LET mapKey == McpMapKey(isOpenCode)
      withMap == ensureMcpMap(settings, mapKey)
  IN Spread(withMap,
            Field(mapKey, storeTemplates(withMap[mapKey], selectedTemplates, 1, isOpenCode)))

SelectedKeys(selectedTemplates) ==
  [i \in DOMAIN selectedTemplates |-> selectedTemplates[i][1]]

(***************************************************************************)
(* The package's MCP server templates and the project's settings files.    *)
(***************************************************************************)
TemplateShapes ==
  <<[command |-> "npx", args |-> <<"-y", "server">>, env |-> [TOKEN |-> "x"]],
    [command |-> "npx", args |-> <<"-y", "server">>],
    [command |-> "mcp-server", env |-> [URL |-> "y"]],
    [command |-> "mcp-server"]>>

\* Two assignments of the four template shapes to the four server keys.
TemplateTables ==
  { [k \in McpServerKeys |->
       TemplateShapes[CHOOSE i \in 1..4 : MCP_SERVER_KEYS[IF up THEN i ELSE 5 - i] = k]] :
    up \in BOOLEAN }

TemplateCatalogs ==
  { [k \in McpServerKeys |-> IF k \in present THEN JsonFile(table[k]) ELSE NoFile] :
      table \in TemplateTables, present \in SUBSET McpServerKeys }

SettingsPaths == {AGENTS[a].settingsFile : a \in DOMAIN AGENTS} \ {""}

UserEntry == [command |-> "user-server"]

UserOpenCodeEntry == [type |-> "local", command |-> <<"user-server">>]

\* Settings documents a user may already have: other top-level keys, and MCP
\* maps holding an entry of the user's own and an older github entry.
InitialDocuments ==
  { Spread(Spread(t, a), o) :
      t \in OptField("theme", {"dark"}),
      a \in OptField("mcpServers", {EmptyObject, [custom |-> UserEntry, github |-> UserEntry]}),
      o \in OptField("mcp", {[custom |-> UserOpenCodeEntry, github |-> UserOpenCodeEntry]}) }

InitialSettingsFiles == {NoFile, UnparsableFile} \cup {JsonFile(d) : d \in InitialDocuments}

Procs == {1, 2}

McpOptions == [McpServerKeys -> BOOLEAN]

\* writeNo: the position of the invocation's writeJsonFile among the writes
\* of the invocations in progress (0: it has not written)
NoCall ==
  [options |-> [k \in McpServerKeys |-> FALSE], selected |-> <<>>, settings |-> EmptyObject,
   ops |-> {}, ret |-> <<>>, threw |-> FALSE, gated |-> FALSE,
   before |-> [files |-> EmptyObject, dirs |-> {}], writeNo |-> 0]

OwnSettingsPath == IF KnownAgent(projectAgent) THEN getAgentConfig(projectAgent).settingsFile ELSE ""

McpQuiet ==
  /\ projectAgent = "claude"
  /\ mcpTemplates = [k \in McpServerKeys |-> NoFile]
  /\ settingsFiles = [p \in SettingsPaths |-> NoFile]
  /\ dirs = {"."}
  /\ settings0 = settingsFiles
  /\ mcpPc = [p \in Procs |-> "idle"]
  /\ mcpCall = [p \in Procs |-> NoCall]
  /\ mcpTouched = {}

McpInit ==
  /\ projectAgent \in DOMAIN AGENTS \cup {"no-such-agent"}
  /\ mcpTemplates \in TemplateCatalogs
  /\ settingsFiles \in
       { [p \in SettingsPaths |-> IF p = OwnSettingsPath THEN f ELSE NoFile] :
           f \in InitialSettingsFiles }
  /\ dirs = {"."} \cup {PathDirname(p) : p \in {q \in SettingsPaths : settingsFiles[q].exists}}
  /\ settings0 = settingsFiles
  /\ mcpPc = [p \in Procs |-> "idle"]
  /\ mcpCall = [p \in Procs |-> NoCall]
  /\ mcpTouched = {}

McpFinish(p, call) ==
  /\ mcpPc' = [mcpPc EXCEPT ![p] = "returned"]
  /\ mcpCall' = [mcpCall EXCEPT ![p] = call]

\* configureMcp(projectDir, options, projectAgent) up to the early returns:
\* profile lookup, capability gate, ensureDir, template selection.
McpBegin(p, options) ==
  /\ mcpPc[p] = "idle"
  /\ LET call == [NoCall EXCEPT !.options = options,
                                !.before = [files |-> settingsFiles, dirs |-> dirs]]
     IN IF ~KnownAgent(projectAgent)
          THEN /\ McpFinish(p, [call EXCEPT !.threw = TRUE])
               /\ UNCHANGED dirs
          ELSE IF McpGate(getAgentConfig(projectAgent))
            THEN /\ McpFinish(p, [call EXCEPT !.gated = TRUE])
                 /\ UNCHANGED dirs
            ELSE LET settingsPath == getAgentConfig(projectAgent).settingsFile
                     selectedTemplates == getSelectedServerTemplates(options, mcpTemplates)
                     ensured == [call EXCEPT !.ops = {"ensureDir"}]
                 IN /\ dirs' = ensureDir(dirs, PathDirname(settingsPath))
                    /\ IF NoTemplateSelected(selectedTemplates)
                         THEN McpFinish(p, ensured)
                         ELSE /\ mcpPc' = [mcpPc EXCEPT ![p] = "read"]
                              /\ mcpCall' = [mcpCall EXCEPT
                                   ![p] = [ensured EXCEPT !.selected = selectedTemplates]]
  /\ UNCHANGED <<projectAgent, mcpTemplates, settingsFiles, settings0, mcpTouched>>
  /\ UNCHANGED cfgVars
  /\ UNCHANGED instVars

\* configureMcp: load the existing settings file, or start from {}
McpRead(p) ==
  /\ mcpPc[p] = "read"
  /\ mcpPc' = [mcpPc EXCEPT ![p] = "write"]
  /\ mcpCall' = [mcpCall EXCEPT
       ![p].settings = readSettings(settingsFiles[getAgentConfig(projectAgent).settingsFile])]
  /\ UNCHANGED <<projectAgent, mcpTemplates, settingsFiles, dirs, settings0, mcpTouched>>
  /\ UNCHANGED cfgVars
  /\ UNCHANGED instVars

\* The number of invocations in progress that have written the settings file
WritesSoFar == Cardinality({q \in Procs : mcpCall[q].writeNo > 0})

\* The settings file is read again at the moment of the write: an atomic
\* read-merge-write
McpWriteFresh(p) ==
  /\ mcpPc[p] = "write"
  /\ LET call == mcpCall[p]
         settingsPath == getAgentConfig(projectAgent).settingsFile
         isOpenCode == projectAgent = "opencode"
         document == mergeServers(readSettings(settingsFiles[settingsPath]), call.selected,
                                  isOpenCode)
         configuredServers == SelectedKeys(call.selected)
     IN /\ settingsFiles' = [settingsFiles EXCEPT ![settingsPath] = JsonFile(document)]
        /\ mcpTouched' = mcpTouched \cup {configuredServers[i] : i \in DOMAIN configuredServers}
        /\ McpFinish(p, [call EXCEPT !.ops = @ \cup {"writeJsonFile"},
                                     !.ret = configuredServers,
                                     !.writeNo = WritesSoFar + 1])
  /\ UNCHANGED <<projectAgent, mcpTemplates, dirs, settings0>>
  /\ UNCHANGED cfgVars
  /\ UNCHANGED instVars

\* configureMcp: merge the selected entries, write the document back, return the keys
McpWrite(p) ==
  /\ mcpPc[p] = "write"
  /\ LET call == mcpCall[p]
         settingsPath == getAgentConfig(projectAgent).settingsFile
         isOpenCode == projectAgent = "opencode"
         document == mergeServers(call.settings, call.selected, isOpenCode)
         configuredServers == SelectedKeys(call.selected)
     IN /\ settingsFiles' = [settingsFiles EXCEPT ![settingsPath] = JsonFile(document)]
        /\ mcpTouched' = mcpTouched \cup {configuredServers[i] : i \in DOMAIN configuredServers}
        /\ McpFinish(p, [call EXCEPT !.ops = @ \cup {"writeJsonFile"},
                                     !.ret = configuredServers,
                                     !.writeNo = WritesSoFar + 1])
  /\ UNCHANGED <<projectAgent, mcpTemplates, dirs, settings0>>
  /\ UNCHANGED cfgVars
  /\ UNCHANGED instVars

\* The caller takes the result; the invocation is over.
McpReturn(p) ==
  /\ mcpPc[p] = "returned"
  /\ mcpPc' = [mcpPc EXCEPT ![p] = "idle"]
  /\ mcpCall' = [mcpCall EXCEPT ![p] = NoCall]
  /\ UNCHANGED <<projectAgent, mcpTemplates, settingsFiles, dirs, settings0, mcpTouched>>
  /\ UNCHANGED cfgVars
  /\ UNCHANGED instVars

\* One invocation at a time
McpNext ==
  \/ \E options \in McpOptions : McpBegin(1, options)
  \/ McpRead(1)
  \/ McpWrite(1)
  \/ McpReturn(1)

\* Two configureMcp invocations with different options against the same
\* settings file, their steps interleaved: nothing locks the file
RaceBegin(p, options) ==
  /\ \A q \in Procs \ {p} : mcpPc[q] = "idle" \/ mcpCall[q].options # options
  /\ McpBegin(p, options)

RaceNext ==
  \/ \E p \in Procs, options \in McpOptions : RaceBegin(p, options)
  \/ \E p \in Procs : McpRead(p)
  \/ \E p \in Procs : McpWrite(p)

RaceSettingsFiles ==
  {NoFile, JsonFile([theme |-> "dark"]),
   JsonFile([mcpServers |-> [custom |-> UserEntry]]),
   JsonFile([mcp |-> [custom |-> UserOpenCodeEntry]])}

RaceInit ==
  /\ projectAgent \in {"claude", "opencode"}
  /\ mcpTemplates \in {[k \in McpServerKeys |-> JsonFile(table[k])] : table \in TemplateTables}
  /\ settingsFiles \in
       { [p \in SettingsPaths |-> IF p = OwnSettingsPath THEN f ELSE NoFile] :
           f \in RaceSettingsFiles }
  /\ dirs = {"."}
  /\ settings0 = settingsFiles
  /\ mcpPc = [p \in Procs |-> "idle"]
  /\ mcpCall = [p \in Procs |-> NoCall]
  /\ mcpTouched = {}

(***************************************************************************)
(* Skill transformers and template rendering (core/transformer.ts and      *)
(* core/template.ts, external collaborators).  The content of a file is    *)
(* the source it came from, whether the transformer rewrote it and whether *)
(* its template variables are rendered.                                    *)
(***************************************************************************)
TRANSFORMERS ==
  [claude   |-> [flat |-> FALSE, rewrites |-> FALSE, postInstall |-> FALSE],
   opencode |-> [flat |-> FALSE, rewrites |-> TRUE,  postInstall |-> TRUE],
   cursor   |-> [flat |-> TRUE,  rewrites |-> TRUE,  postInstall |-> TRUE],
   codex    |-> [flat |-> TRUE,  rewrites |-> FALSE, postInstall |-> FALSE],
   nomcp    |-> [flat |-> TRUE,  rewrites |-> TRUE,  postInstall |-> FALSE],
   nofile   |-> [flat |-> FALSE, rewrites |-> TRUE,  postInstall |-> FALSE]]

getTransformer(agentId) == TRANSFORMERS[agentId]

SourceContent(sourceSkillDir) == [text |-> sourceSkillDir, rewritten |-> FALSE, rendered |-> FALSE]

transform(transformer, skillName, content) ==
  LET rewritten == [content EXCEPT !.rewritten = transformer.rewrites]
  IN IF transformer.flat
       THEN [flat |-> TRUE, targetDir |-> "rules", targetName |-> skillName \o ".md",
             content |-> rewritten]
       ELSE [flat |-> FALSE, targetDir |-> skillName, targetName |-> "SKILL.md",
             content |-> rewritten]

processTemplate(content) == [content EXCEPT !.rendered = TRUE]

PathJoin(a, b) == a \o "/" \o b

writeTextFile(files, filePath, content) == Spread(files, Field(filePath, content))

\* copyDirectory(source, target): the source's SKILL.md arrives in the target
copyDirectory(files, sourceSkillDir, targetSkillDir) ==
  writeTextFile(files, PathJoin(targetSkillDir, "SKILL.md"), SourceContent(sourceSkillDir))

\* processSkillTemplates(targetSkillDir): renders the files of the directory
processSkillTemplates(files, targetSkillDir) ==
  LET skillMd == PathJoin(targetSkillDir, "SKILL.md")
  IN [f \in DOMAIN files |-> IF f = skillMd THEN processTemplate(files[f]) ELSE files[f]]

\* What the SKILL.md of a package directory holds
SkillMdOf(dir) == IF dir \in DOMAIN packageSkills THEN packageSkills[dir] ELSE "missing"

\* readTextFile(<dir>/SKILL.md) is falsy: no file, or an empty one
NoContent(skillMd) == skillMd \in {"missing", "empty"}

(***************************************************************************)
(* core/installer.ts                                                       *)
(***************************************************************************)
\* [threw, files]: the outcome of one installSkillWithTransformer call
installSkillWithTransformer(files, skillMd, sourceSkillDir, skillName, skillsDir, agent) ==
  IF NoContent(skillMd)
    THEN [threw |-> TRUE, files |-> files]
    ELSE
      LET content == SourceContent(sourceSkillDir)
          result == transform(getTransformer(agent), skillName, content)
          agentConfig == getAgentConfig(agent)
      IN IF result.flat
           THEN LET targetPath ==
                      PathJoin(PathJoin(agentConfig.configDir, result.targetDir), result.targetName)
                IN [threw |-> FALSE,
                    files |-> writeTextFile(files, targetPath, processTemplate(result.content))]
           ELSE LET targetSkillDir == PathJoin(skillsDir, result.targetDir)
                    copied == copyDirectory(files, sourceSkillDir, targetSkillDir)
                    overwritten ==
                      IF result.content # content
                        THEN writeTextFile(copied, PathJoin(targetSkillDir, "SKILL.md"), result.content)
                        ELSE copied
                IN [threw |-> FALSE, files |-> processSkillTemplates(overwritten, targetSkillDir)]

TemplateDir(stack) == PathJoin("_templates", stack)

(***************************************************************************)
(* The package's skill catalog and the requests                            *)
(***************************************************************************)
MaxSkills == 3

BaseSkills == {"s1", "s2", "s3"}

Stacks == {"web"}

TemplateSkills == <<"t1", "t2">>

TemplateSources ==
  {PathJoin(TemplateDir(st), TemplateSkills[i]) : st \in Stacks, i \in DOMAIN TemplateSkills}

SourceDirs == BaseSkills \cup TemplateSources

\* Every source directory holds a SKILL.md with text or none; s2 and the
\* first template skill may also hold an empty one.
PackageCatalogs ==
  { c \in [SourceDirs -> {"text", "missing", "empty"}] :
      \A d \in SourceDirs : c[d] = "empty" => d \in {"s2", "_templates/web/t1"} }

\* listDirectories(_templates/<stack>): the listing, or a throw when the directory is absent
TemplateListings ==
  { [st \in Stacks |-> l] : l \in {[exists |-> FALSE, dirs |-> <<>>],
                                   [exists |-> TRUE, dirs |-> TemplateSkills]} }

\* The package's skills directory as listDirectories lists it in full
PackageListing == <<"_templates", "s1", "s2", "s3">>

SkillRequests == UNION {[1..n -> BaseSkills] : n \in 0..MaxSkills}

InstallAgents == {"claude", "opencode", "cursor", "no-such-agent"}

\* How often installSkills is called with the same options
MaxRuns == 2

\* One entry of the call's record of what it did: an install attempt of a
\* skill key and whether it succeeded, or the postInstall hook (key "")
InstallEvent(key, ok) == [op |-> "install", key |-> key, ok |-> ok]

HookEvent == [op |-> "postInstall", key |-> "", ok |-> TRUE]

\* run counts the calls with the same options; first holds what the
\* previous call left behind and returned.  update and the fields after it
\* are the locals of updateSkills and reconcileCustomSkills.  sub is the
\* position inside installSkillWithTransformer when its filesystem steps are
\* taken one by one; interrupted tells that an earlier run was terminated.
NoInstall ==
  [skills |-> <<>>, stack |-> "", skillsDir |-> "", i |-> 0, templateSkills |-> <<>>, j |-> 0,
   installedSkills |-> <<>>, attempted |-> <<>>, warnings |-> <<>>, hookCalls |-> 0,
   threw |-> FALSE, events |-> <<>>, run |-> 0,
   first |-> [files |-> EmptyObject, ret |-> <<>>, threw |-> FALSE],
   update |-> FALSE, recorded |-> <<>>, customSkills |-> <<>>, k |-> 0,
   reconciledCustomSkills |-> <<>>, reconcileWarnings |-> <<>>, ret |-> <<>>,
   sub |-> "", interrupted |-> FALSE]

InstQuiet ==
  /\ packageSkills = [d \in SourceDirs |-> "missing"]
  /\ packageDirs = <<>>
  /\ templateDirs = [st \in Stacks |-> [exists |-> FALSE, dirs |-> <<>>]]
  /\ projectFiles = EmptyObject
  /\ instPc = "idle"
  /\ instCall = NoInstall

InstInit ==
  /\ packageSkills \in PackageCatalogs
  /\ packageDirs = PackageListing
  /\ templateDirs \in TemplateListings
  /\ \A st \in Stacks : ~templateDirs[st].exists =>
       \A i \in DOMAIN TemplateSkills :
         packageSkills[PathJoin(TemplateDir(st), TemplateSkills[i])] = "missing"
  /\ projectFiles = EmptyObject
  /\ instPc = "idle"
  /\ instCall = NoInstall

\* ensureDir of the skills directory comes before the profile lookup
installSkillsEnsureFirst(skills, stack, locals) ==
  LET skillsDir ==
        IF KnownAgent(projectAgent) THEN getAgentConfig(projectAgent).skillsDir ELSE "skills"
  IN /\ dirs' = ensureDir(dirs, skillsDir)
     /\ IF ~KnownAgent(projectAgent)
          THEN /\ instPc' = "returned"
               /\ instCall' = [locals EXCEPT !.skills = skills, !.stack = stack, !.threw = TRUE]
          ELSE /\ instPc' = "skills"
               /\ instCall' = [locals EXCEPT !.skills = skills, !.stack = stack,
                                             !.skillsDir = skillsDir, !.i = 1]

\* installSkills(options) up to its first loop: the profile lookup, which
\* throws for an agent id without a profile, then ensureDir of the skills
\* directory; locals are the call's fresh locals
installSkills(skills, stack, locals) ==
  IF ~KnownAgent(projectAgent)
    THEN /\ instPc' = "returned"
         /\ instCall' = [locals EXCEPT !.skills = skills, !.stack = stack, !.threw = TRUE]
         /\ UNCHANGED dirs
    ELSE LET skillsDir == getAgentConfig(projectAgent).skillsDir
         IN /\ dirs' = ensureDir(dirs, skillsDir)
            /\ instPc' = "skills"
            /\ instCall' = [locals EXCEPT !.skills = skills, !.stack = stack,
                                          !.skillsDir = skillsDir, !.i = 1]

\* A first installSkills call
InstallBegin(skills, stack) ==
  /\ instPc = "idle"
  /\ installSkills(skills, stack, [NoInstall EXCEPT !.run = 1])
  /\ UNCHANGED <<packageSkills, packageDirs, templateDirs, projectFiles>>
  /\ UNCHANGED <<projectAgent, mcpTemplates, settingsFiles, settings0, mcpPc, mcpCall, mcpTouched>>
  /\ UNCHANGED cfgVars

\* The list of installed skills outlives the call and is appended to
InstallAgainKeepList ==
  /\ instPc = "returned"
  /\ instCall.run < MaxRuns
  /\ installSkills(instCall.skills, instCall.stack,
       [NoInstall EXCEPT !.run = instCall.run + 1,
                         !.installedSkills = instCall.installedSkills,
                         !.first = [files |-> projectFiles, ret |-> instCall.installedSkills,
                                    threw |-> instCall.threw]])
  /\ UNCHANGED <<packageSkills, packageDirs, templateDirs, projectFiles>>
  /\ UNCHANGED <<projectAgent, mcpTemplates, settingsFiles, settings0, mcpPc, mcpCall, mcpTouched>>
  /\ UNCHANGED cfgVars

\* installSkills called again with the same options, the package's skills
\* and the project's files being what the previous call left
InstallAgain ==
  /\ instPc = "returned"
  /\ instCall.run < MaxRuns
  /\ installSkills(instCall.skills, instCall.stack,
       [NoInstall EXCEPT !.run = instCall.run + 1,
                         !.first = [files |-> projectFiles, ret |-> instCall.installedSkills,
                                    threw |-> instCall.threw]])
  /\ UNCHANGED <<packageSkills, packageDirs, templateDirs, projectFiles>>
  /\ UNCHANGED <<projectAgent, mcpTemplates, settingsFiles, settings0, mcpPc, mcpCall, mcpTouched>>
  /\ UNCHANGED cfgVars

\* The try block around the whole loop: the first failure ends the loop
InstallSkillOuterTry ==
  /\ instPc = "skills"
  /\ instCall.i <= Len(instCall.skills)
  /\ LET skill == instCall.skills[instCall.i]
         outcome == installSkillWithTransformer(projectFiles, packageSkills[skill],
                      skill, skill, instCall.skillsDir, projectAgent)
     IN /\ projectFiles' = outcome.files
        /\ instCall' =
             [instCall EXCEPT
                !.i = IF outcome.threw THEN Len(instCall.skills) + 1 ELSE @ + 1,
                !.attempted = Append(@, skill),
                !.installedSkills = IF outcome.threw THEN @ ELSE Append(@, skill)]
  /\ UNCHANGED <<packageSkills, packageDirs, templateDirs, instPc>>
  /\ UNCHANGED mcpVars
  /\ UNCHANGED cfgVars

\* One turn of `for (const skill of skills)`: try the install, push on
\* success, warn on failure
InstallSkill ==
  /\ instPc = "skills"
  /\ instCall.i <= Len(instCall.skills)
  /\ LET skill == instCall.skills[instCall.i]
         sourceSkillDir == skill
         outcome == installSkillWithTransformer(projectFiles, SkillMdOf(sourceSkillDir),
                      sourceSkillDir, skill, instCall.skillsDir, projectAgent)
     IN /\ projectFiles' = outcome.files
        /\ instCall' =
             [instCall EXCEPT
                !.i = @ + 1,
                !.attempted = Append(@, skill),
                !.installedSkills = IF outcome.threw THEN @ ELSE Append(@, skill),
                !.warnings = IF outcome.threw THEN Append(@, skill) ELSE @,
                !.events = Append(@, InstallEvent(skill, ~outcome.threw))]
  /\ UNCHANGED <<packageSkills, packageDirs, templateDirs, instPc>>
  /\ UNCHANGED mcpVars
  /\ UNCHANGED cfgVars

\* `if (stack)`: list the stack's template directory; a throw of
\* listDirectories is caught and the stack skipped
InstallStackList ==
  /\ instPc = "skills"
  /\ instCall.i > Len(instCall.skills)
  /\ IF instCall.stack # "" /\ templateDirs[instCall.stack].exists
          /\ Len(templateDirs[instCall.stack].dirs) > 0
       THEN /\ instPc' = "stack"
            /\ instCall' = [instCall EXCEPT !.templateSkills = templateDirs[instCall.stack].dirs,
                                            !.j = 1]
       ELSE /\ instPc' = "post"
            /\ UNCHANGED instCall
  /\ UNCHANGED <<packageSkills, packageDirs, templateDirs, projectFiles>>
  /\ UNCHANGED mcpVars
  /\ UNCHANGED cfgVars

\* One turn of `for (const templateSkill of templateSkills)`, inside the
\* try block that encloses the whole loop: a throw leaves the loop
InstallTemplateSkill ==
  /\ instPc = "stack"
  /\ LET templateSkill == instCall.templateSkills[instCall.j]
         sourceDir == PathJoin(TemplateDir(instCall.stack), templateSkill)
         outcome == installSkillWithTransformer(projectFiles, SkillMdOf(sourceDir),
                      sourceDir, templateSkill, instCall.skillsDir, projectAgent)
         key == PathJoin(instCall.stack, templateSkill)
     IN /\ projectFiles' = outcome.files
        /\ instCall' =
             [instCall EXCEPT
                !.j = @ + 1,
                !.attempted = Append(@, key),
                !.installedSkills = IF outcome.threw THEN @ ELSE Append(@, key),
                !.events = Append(@, InstallEvent(key, ~outcome.threw))]
        /\ instPc' = IF outcome.threw \/ instCall.j = Len(instCall.templateSkills)
                       THEN "post" ELSE "stack"
  /\ UNCHANGED <<packageSkills, packageDirs, templateDirs>>
  /\ UNCHANGED mcpVars
  /\ UNCHANGED cfgVars

\* The hook is called only when a skill was installed
InstallPostIfInstalled ==
  /\ instPc = "post"
  /\ instPc' = "returned"
  /\ instCall' =
       IF getTransformer(projectAgent).postInstall /\ instCall.installedSkills # <<>>
         THEN [instCall EXCEPT !.hookCalls = @ + 1, !.events = Append(@, HookEvent)]
         ELSE instCall
  /\ UNCHANGED <<packageSkills, packageDirs, templateDirs, projectFiles>>
  /\ UNCHANGED mcpVars
  /\ UNCHANGED cfgVars

\* transformer.postInstall, when the transformer has one; return installedSkills
InstallPost ==
  /\ instPc = "post"
  /\ instPc' = "returned"
  /\ instCall' =
       IF getTransformer(projectAgent).postInstall
         THEN [instCall EXCEPT !.hookCalls = @ + 1, !.events = Append(@, HookEvent)]
         ELSE instCall
  /\ UNCHANGED <<packageSkills, packageDirs, templateDirs, projectFiles>>
  /\ UNCHANGED mcpVars
  /\ UNCHANGED cfgVars

InstNext ==
  \/ \E skills \in SkillRequests, stack \in Stacks \cup {""} : InstallBegin(skills, stack)
  \/ InstallSkill
  \/ InstallStackList
  \/ InstallTemplateSkill
  \/ InstallPost
  \/ InstallAgain

InstallInit ==
  /\ InstInit
  /\ CfgQuiet
  /\ projectAgent \in InstallAgents
  /\ mcpTemplates = [k \in McpServerKeys |-> NoFile]
  /\ settingsFiles = [p \in SettingsPaths |-> NoFile]
  /\ dirs = {"."}
  /\ settings0 = settingsFiles
  /\ mcpPc = [p \in Procs |-> "idle"]
  /\ mcpCall = [p \in Procs |-> NoCall]
  /\ mcpTouched = {}

(***************************************************************************)
(* updateSkills and reconcileCustomSkills.  A recorded skill key is the     *)
(* sequence of the parts that split('/') yields: "s1" is <<"s1">>, "web/t1" *)
(* is <<"web", "t1">>, "web/" is <<"web", "">>.                             *)
(***************************************************************************)
\* The length of config.installedSkills
MaxRecorded == 2

RECURSIVE JoinParts(_)
JoinParts(parts) ==
  IF Len(parts) = 0 THEN ""
  ELSE IF Len(parts) = 1 THEN parts[1]
  ELSE parts[1] \o "/" \o JoinParts(Tail(parts))

\* The key as config.installedSkills stores it
KeyString(parts) == JoinParts(parts)

\* s.includes('/')
IncludesSlash(parts) == Len(parts) > 1

\* dir.startsWith('_')
StartsWithUnderscore(dir) == dir \in {"_templates"}

RecordedKeys == {<<"s1">>, <<"web", "t1">>, <<"web", "t2">>, <<"web", "">>, <<"", "t1">>}

RecordedLists == UNION {[1..n -> RecordedKeys] : n \in 0..MaxRecorded}

\* The listings of the package's skills directory: a skill directory that
\* holds a SKILL.md is listed, one that holds none may be absent
PackageListings(catalog) ==
  { SelectSeq(PackageListing, LAMBDA dir : dir \in listed) :
      listed \in { l \in SUBSET {PackageListing[i] : i \in DOMAIN PackageListing} :
                     /\ "_templates" \in l
                     /\ \A d \in BaseSkills : catalog[d] # "missing" => d \in l } }

\* Every listed directory, the _templates directory included
getAvailableSkillsUnfiltered == packageDirs

\* getAvailableSkills()
getAvailableSkills == SelectSeq(packageDirs, LAMBDA dir : ~StartsWithUnderscore(dir))

\* updateSkills(config, projectDir) up to the first loop of its installSkills call
UpdateBegin(recorded) ==
  /\ instPc = "idle"
  /\ installSkills(getAvailableSkills, "",
       [NoInstall EXCEPT !.run = 1, !.update = TRUE, !.recorded = recorded,
                         !.customSkills = SelectSeq(recorded, IncludesSlash)])
  /\ UNCHANGED <<packageSkills, packageDirs, templateDirs, projectFiles>>
  /\ UNCHANGED <<projectAgent, mcpTemplates, settingsFiles, settings0, mcpPc, mcpCall, mcpTouched>>
  /\ UNCHANGED cfgVars

\* installSkills has returned to updateSkills: reconcileCustomSkills starts
ReconcileBegin ==
  /\ instPc = "returned"
  /\ instCall.update /\ ~instCall.threw
  /\ instPc' = "reconcile"
  /\ instCall' = [instCall EXCEPT !.k = 1]
  /\ UNCHANGED <<packageSkills, packageDirs, templateDirs, projectFiles>>
  /\ UNCHANGED mcpVars
  /\ UNCHANGED cfgVars

\* What one turn of the loop of reconcileCustomSkills does with a key:
\* [files, pushed, warning, attempted]
reconcileOne(files, customSkill, skillsDir, agent) ==
  LET stack == IF Len(customSkill) >= 1 THEN customSkill[1] ELSE ""
      templateSkill == IF Len(customSkill) >= 2 THEN customSkill[2] ELSE ""
      templateSkillDir == PathJoin(TemplateDir(stack), templateSkill)
  IN IF stack = "" \/ templateSkill = ""
       THEN [files |-> files, pushed |-> FALSE, warning |-> "Invalid custom skill entry",
             attempted |-> FALSE]
     ELSE IF SkillMdOf(templateSkillDir) # "missing"
       THEN LET outcome == installSkillWithTransformer(files, SkillMdOf(templateSkillDir),
                             templateSkillDir, templateSkill, skillsDir, agent)
            IN [files |-> outcome.files, pushed |-> ~outcome.threw,
                warning |-> IF outcome.threw THEN "Could not reconcile custom skill" ELSE "",
                attempted |-> TRUE]
     ELSE [files |-> files, pushed |-> FALSE, warning |-> "Custom skill source not found",
           attempted |-> FALSE]

\* A key of invalid format ends the loop
ReconcileSkillStopOnInvalid ==
  /\ instPc = "reconcile"
  /\ instCall.k <= Len(instCall.customSkills)
  /\ LET customSkill == instCall.customSkills[instCall.k]
         turn == reconcileOne(projectFiles, customSkill, instCall.skillsDir, projectAgent)
     IN /\ projectFiles' = turn.files
        /\ instCall' =
             [instCall EXCEPT
                !.k = IF turn.warning = "Invalid custom skill entry"
                        THEN Len(instCall.customSkills) + 1 ELSE @ + 1,
                !.reconciledCustomSkills =
                   IF turn.pushed THEN Append(@, KeyString(customSkill)) ELSE @,
                !.reconcileWarnings =
                   IF turn.warning # ""
                     THEN Append(@, [key |-> KeyString(customSkill), warning |-> turn.warning])
                     ELSE @,
                !.events = IF turn.attempted
                             THEN Append(@, InstallEvent(KeyString(customSkill), turn.pushed))
                             ELSE @]
  /\ UNCHANGED <<packageSkills, packageDirs, templateDirs, instPc>>
  /\ UNCHANGED mcpVars
  /\ UNCHANGED cfgVars

\* One turn of `for (const customSkill of customSkills)`
ReconcileSkill ==
  /\ instPc = "reconcile"
  /\ instCall.k <= Len(instCall.customSkills)
  /\ LET customSkill == instCall.customSkills[instCall.k]
         turn == reconcileOne(projectFiles, customSkill, instCall.skillsDir, projectAgent)
     IN /\ projectFiles' = turn.files
        /\ instCall' =
             [instCall EXCEPT
                !.k = @ + 1,
                !.reconciledCustomSkills =
                   IF turn.pushed THEN Append(@, KeyString(customSkill)) ELSE @,
                !.reconcileWarnings =
                   IF turn.warning # ""
                     THEN Append(@, [key |-> KeyString(customSkill), warning |-> turn.warning])
                     ELSE @,
                !.events = IF turn.attempted
                             THEN Append(@, InstallEvent(KeyString(customSkill), turn.pushed))
                             ELSE @]
  /\ UNCHANGED <<packageSkills, packageDirs, templateDirs, instPc>>
  /\ UNCHANGED mcpVars
  /\ UNCHANGED cfgVars

\* reconcileCustomSkills returns; updateSkills returns
\* [...installedBaseSkills, ...reconciledCustomSkills]
UpdateReturn ==
  /\ instPc = "reconcile"
  /\ instCall.k > Len(instCall.customSkills)
  /\ instPc' = "updated"
  /\ instCall' = [instCall EXCEPT !.ret = instCall.installedSkills \o instCall.reconciledCustomSkills]
  /\ UNCHANGED <<packageSkills, packageDirs, templateDirs, projectFiles>>
  /\ UNCHANGED mcpVars
  /\ UNCHANGED cfgVars

UpdateNext ==
  \/ \E recorded \in RecordedLists : UpdateBegin(recorded)
  \/ InstallSkill
  \/ InstallStackList
  \/ InstallPost
  \/ ReconcileBegin
  \/ ReconcileSkill
  \/ UpdateReturn

UpdateInit ==
  /\ CfgQuiet
  /\ projectAgent \in InstallAgents
  /\ mcpTemplates = [k \in McpServerKeys |-> NoFile]
  /\ settingsFiles = [p \in SettingsPaths |-> NoFile]
  /\ dirs = {"."}
  /\ settings0 = settingsFiles
  /\ mcpPc = [p \in Procs |-> "idle"]
  /\ mcpCall = [p \in Procs |-> NoCall]
  /\ mcpTouched = {}
  /\ packageSkills \in PackageCatalogs
  /\ packageDirs \in PackageListings(packageSkills)
  /\ templateDirs = [st \in Stacks |-> [exists |-> TRUE, dirs |-> TemplateSkills]]
  /\ projectFiles = EmptyObject
  /\ instPc = "idle"
  /\ instCall = NoInstall

(***************************************************************************)
(* installSkills with the filesystem steps of installSkillWithTransformer  *)
(* taken one at a time, a termination of the process between two steps,    *)
(* and the re-run with the same options.                                   *)
(***************************************************************************)
\* The skill the loop in progress is at: its key in installedSkills, its
\* source directory and the name handed to the transformer
CurrentItem ==
  IF instPc = "skills"
    THEN LET skill == instCall.skills[instCall.i]
         IN [key |-> skill, sourceDir |-> skill, skillName |-> skill]
    ELSE LET templateSkill == instCall.templateSkills[instCall.j]
         IN [key |-> PathJoin(instCall.stack, templateSkill),
             sourceDir |-> PathJoin(TemplateDir(instCall.stack), templateSkill),
             skillName |-> templateSkill]

AtItem ==
  \/ instPc = "skills" /\ instCall.i <= Len(instCall.skills)
  \/ instPc = "stack"

ItemResult ==
  transform(getTransformer(projectAgent), CurrentItem.skillName,
            SourceContent(CurrentItem.sourceDir))

ItemTargetDir == PathJoin(instCall.skillsDir, ItemResult.targetDir)

\* installSkillWithTransformer has returned or thrown: the push or the
\* warning of the loop in progress, and where the loop goes next
FinishItem(ok) ==
  IF instPc = "skills"
    THEN /\ instCall' =
              [instCall EXCEPT
                 !.i = @ + 1, !.sub = "",
                 !.attempted = Append(@, CurrentItem.key),
                 !.installedSkills = IF ok THEN Append(@, CurrentItem.key) ELSE @,
                 !.warnings = IF ok THEN @ ELSE Append(@, CurrentItem.key),
                 !.events = Append(@, InstallEvent(CurrentItem.key, ok))]
         /\ UNCHANGED instPc
    ELSE /\ instCall' =
              [instCall EXCEPT
                 !.j = @ + 1, !.sub = "",
                 !.attempted = Append(@, CurrentItem.key),
                 !.installedSkills = IF ok THEN Append(@, CurrentItem.key) ELSE @,
                 !.events = Append(@, InstallEvent(CurrentItem.key, ok))]
         /\ instPc' = IF ~ok \/ instCall.j = Len(instCall.templateSkills)
                        THEN "post" ELSE "stack"

\* readTextFile yields nothing: installSkillWithTransformer throws
ItemFail ==
  /\ AtItem /\ instCall.sub = ""
  /\ NoContent(SkillMdOf(CurrentItem.sourceDir))
  /\ FinishItem(FALSE)
  /\ UNCHANGED <<packageSkills, packageDirs, templateDirs, projectFiles>>
  /\ UNCHANGED mcpVars
  /\ UNCHANGED cfgVars

\* A flat transformer: the one write of the rendered file
ItemFlat ==
  /\ AtItem /\ instCall.sub = ""
  /\ ~NoContent(SkillMdOf(CurrentItem.sourceDir))
  /\ ItemResult.flat
  /\ projectFiles' =
       writeTextFile(projectFiles,
                     PathJoin(PathJoin(getAgentConfig(projectAgent).configDir,
                                       ItemResult.targetDir), ItemResult.targetName),
                     processTemplate(ItemResult.content))
  /\ FinishItem(TRUE)
  /\ UNCHANGED <<packageSkills, packageDirs, templateDirs>>
  /\ UNCHANGED mcpVars
  /\ UNCHANGED cfgVars

\* A skill whose target SKILL.md is there already counts as installed
ItemCopySkipExisting ==
  /\ AtItem /\ instCall.sub = ""
  /\ ~NoContent(SkillMdOf(CurrentItem.sourceDir))
  /\ ~ItemResult.flat
  /\ IF Has(projectFiles, PathJoin(ItemTargetDir, "SKILL.md"))
       THEN /\ FinishItem(TRUE)
            /\ UNCHANGED projectFiles
       ELSE /\ projectFiles' = copyDirectory(projectFiles, CurrentItem.sourceDir, ItemTargetDir)
            /\ instCall' = [instCall EXCEPT !.sub = "copied"]
            /\ UNCHANGED instPc
  /\ UNCHANGED <<packageSkills, packageDirs, templateDirs>>
  /\ UNCHANGED mcpVars
  /\ UNCHANGED cfgVars

\* copyDirectory(sourceSkillDir, targetSkillDir)
ItemCopy ==
  /\ AtItem /\ instCall.sub = ""
  /\ ~NoContent(SkillMdOf(CurrentItem.sourceDir))
  /\ ~ItemResult.flat
  /\ projectFiles' = copyDirectory(projectFiles, CurrentItem.sourceDir, ItemTargetDir)
  /\ instCall' = [instCall EXCEPT !.sub = "copied"]
  /\ UNCHANGED <<packageSkills, packageDirs, templateDirs, instPc>>
  /\ UNCHANGED mcpVars
  /\ UNCHANGED cfgVars

\* if (result.content !== content) writeTextFile(<target>/SKILL.md, result.content)
ItemOverwrite ==
  /\ AtItem /\ instCall.sub = "copied"
  /\ projectFiles' =
       IF ItemResult.content # SourceContent(CurrentItem.sourceDir)
         THEN writeTextFile(projectFiles, PathJoin(ItemTargetDir, "SKILL.md"), ItemResult.content)
         ELSE projectFiles
  /\ instCall' = [instCall EXCEPT !.sub = "overwritten"]
  /\ UNCHANGED <<packageSkills, packageDirs, templateDirs, instPc>>
  /\ UNCHANGED mcpVars
  /\ UNCHANGED cfgVars

\* processSkillTemplates(targetSkillDir, agentConfig), and the return to the loop
ItemTemplates ==
  /\ AtItem /\ instCall.sub = "overwritten"
  /\ projectFiles' = processSkillTemplates(projectFiles, ItemTargetDir)
  /\ FinishItem(TRUE)
  /\ UNCHANGED <<packageSkills, packageDirs, templateDirs>>
  /\ UNCHANGED mcpVars
  /\ UNCHANGED cfgVars

\* The process is terminated between two steps
Terminate ==
  /\ instPc \in {"skills", "stack", "post"}
  /\ ~instCall.interrupted
  /\ instPc' = "killed"
  /\ UNCHANGED <<packageSkills, packageDirs, templateDirs, projectFiles, instCall>>
  /\ UNCHANGED mcpVars
  /\ UNCHANGED cfgVars

\* installSkills is run again with the same options on what the terminated run left
Restart ==
  /\ instPc = "killed"
  /\ installSkills(instCall.skills, instCall.stack,
       [NoInstall EXCEPT !.run = instCall.run + 1, !.interrupted = TRUE])
  /\ UNCHANGED <<packageSkills, packageDirs, templateDirs, projectFiles>>
  /\ UNCHANGED <<projectAgent, mcpTemplates, settingsFiles, settings0, mcpPc, mcpCall, mcpTouched>>
  /\ UNCHANGED cfgVars

CrashNext ==
  \/ \E skills \in SkillRequests, stack \in Stacks \cup {""} : InstallBegin(skills, stack)
  \/ ItemFail
  \/ ItemFlat
  \/ ItemCopy
  \/ ItemOverwrite
  \/ ItemTemplates
  \/ InstallStackList
  \/ InstallPost
  \/ Terminate
  \/ Restart

ConfigInit == CfgInit /\ McpQuiet /\ InstQuiet

SpecConfig == ConfigInit /\ [][CfgNext]_vars

ProvisionInit == McpInit /\ CfgQuiet /\ InstQuiet

SpecMcp == ProvisionInit /\ [][McpNext]_vars

Spec == InstallInit /\ [][InstNext]_vars

SpecUpdate == UpdateInit /\ [][UpdateNext]_vars

ConcurrentInit == RaceInit /\ CfgQuiet /\ InstQuiet

SpecMcpRace == ConcurrentInit /\ [][RaceNext]_vars

SpecCrash == InstallInit /\ [][CrashNext]_vars

(***************************************************************************)
(* Properties of configuration migration                                   *)
(***************************************************************************)
StoredAgentOf(config) == IF Has(config, "agent") THEN config.agent ELSE Undefined

\* C1: every configuration loadConfig returns carries the running tool's
\* current version, whatever version the file stored.
C1_VersionForced ==
  loaded.kind = "config" => loaded.value.version = CURRENT_VERSION

\* C2: the migrated mcp object holds all four flags; a flag the stored mcp
\* object supplies has the supplied value, a flag it does not supply has the
\* default value (false).
C2_McpPartialMask ==
  loaded.kind = "config" =>
    /\ DOMAIN loaded.value.mcp = McpFlags
    /\ \A f \in McpFlags :
         loaded.value.mcp[f] =
           IF Has(cfgInput, "mcp") /\ Has(cfgInput.mcp, f) THEN cfgInput.mcp[f] ELSE FALSE

C2_Witness ==
  /\ loaded.kind = "config"
  /\ Has(cfgInput, "mcp")
  /\ DOMAIN cfgInput.mcp = {"github", "postgres"}
  /\ cfgInput.mcp["github"] /\ ~cfgInput.mcp["postgres"]
  /\ loaded.value.mcp["github"] /\ ~loaded.value.mcp["filesystem"]

\* C3: a configuration returned by migration, and the file saveConfig writes
\* from it, holds no top-level key outside the schema.
C3_UnknownKeysDropped ==
  /\ loaded.kind = "config" => DOMAIN loaded.value \subseteq SchemaKeys
  /\ (loaded.kind = "config" /\ configFile = JsonFile(loaded.value)) =>
       DOMAIN configFile.json \subseteq SchemaKeys

\* C4: migration never fails on the agent field: a file that exists always
\* loads to a full configuration, whose agent is the stored agent when the
\* registry knows it and 'claude' when it is absent, empty or unknown.
C4_AgentCoerced ==
  (loaded.kind # "none" /\ loaded.kind # "null") =>
    /\ loaded.kind = "config"
    /\ SchemaKeys \subseteq DOMAIN loaded.value
    /\ loaded.value.agent =
         IF StoredAgentOf(cfgInput) \in DOMAIN AGENTS THEN StoredAgentOf(cfgInput) ELSE "claude"

C4_Witness ==
  /\ loaded.kind = "config"
  /\ StoredAgentOf(cfgInput) = "no-such-agent"
  /\ loaded.value.agent = "claude"
  /\ loaded.value.skillsDir = AGENTS["claude"].skillsDir

(***************************************************************************)
(* Properties of MCP provisioning (one invocation at a time)               *)
(***************************************************************************)
OwnMapKey == McpMapKey(projectAgent = "opencode")

EntryKeys(document, mapKey) == IF Has(document, mapKey) THEN DOMAIN document[mapKey] ELSE {}

TemplateMissing(key) == readJsonFile(mcpTemplates[key]) = Null

\* C7: a settings document that existed before the configureMcp calls keeps
\* every top-level key other than the agent's MCP map with its value, and
\* every entry of the MCP map whose key no call selected; the calls add
\* nothing but the MCP map and the selected server keys, and touch no other
\* settings file.
C7_FramePreserved ==
  \A path \in SettingsPaths :
    /\ path # OwnSettingsPath => settingsFiles[path] = settings0[path]
    /\ readJsonFile(settings0[path]) # Null =>
         /\ readJsonFile(settingsFiles[path]) # Null
         /\ LET before == settings0[path].json
                after == settingsFiles[path].json
            IN /\ \A k \in DOMAIN before \ {OwnMapKey} : Has(after, k) /\ after[k] = before[k]
               /\ DOMAIN after \subseteq DOMAIN before \cup {OwnMapKey}
               /\ \A e \in EntryKeys(before, OwnMapKey) \ mcpTouched :
                    /\ e \in EntryKeys(after, OwnMapKey)
                    /\ after[OwnMapKey][e] = before[OwnMapKey][e]
               /\ EntryKeys(after, OwnMapKey) \subseteq EntryKeys(before, OwnMapKey) \cup mcpTouched

C7_Witness ==
  /\ projectAgent = "claude"
  /\ mcpPc[1] = "returned"
  /\ mcpCall[1].ret = <<"filesystem">>
  /\ mcpTouched = {"filesystem"}
  /\ settings0[".mcp.json"] =
       JsonFile([theme |-> "dark", mcpServers |-> [custom |-> UserEntry, github |-> UserEntry],
                 mcp |-> [custom |-> UserOpenCodeEntry, github |-> UserOpenCodeEntry]])
  /\ DOMAIN settingsFiles[".mcp.json"].json.mcpServers = {"custom", "github", "filesystem"}
  /\ settingsFiles[".mcp.json"].json.mcpServers["github"] = UserEntry
  /\ settingsFiles[".mcp.json"].json.theme = "dark"

\* C8: a configureMcp call that passes the capability gate and selects no
\* template (no flag set, or every set flag's template file missing) returns
\* the empty list without writing the settings file: every settings file is
\* as it was before the call, an absent one still absent.
C8_NoSelectionNoWrite ==
  LET call == mcpCall[1]
  IN (/\ mcpPc[1] = "returned"
      /\ ~call.threw
      /\ ~call.gated
      /\ \A k \in McpServerKeys : call.options[k] => TemplateMissing(k))
     => /\ call.ret = <<>>
        /\ "writeJsonFile" \notin call.ops
        /\ settingsFiles = call.before.files

C8_Witness ==
  /\ mcpPc[1] = "returned"
  /\ projectAgent = "cursor"
  /\ mcpCall[1].options["github"] /\ mcpCall[1].options["postgres"]
  /\ \A k \in McpServerKeys : mcpCall[1].options[k] => TemplateMissing(k)
  /\ \E k \in McpServerKeys : ~TemplateMissing(k)
  /\ mcpCall[1].ret = <<>>
  /\ ~settingsFiles[".cursor/mcp.json"].exists

\* C9: for an agent whose profile has supportsMcp false or no settingsFile,
\* configureMcp returns the empty list and invokes no filesystem mutation:
\* no file is written and no directory is created, whatever the options.
C9_CapabilityGate ==
  LET call == mcpCall[1]
  IN (/\ mcpPc[1] = "returned"
      /\ KnownAgent(projectAgent)
      /\ (~AGENTS[projectAgent].supportsMcp \/ AGENTS[projectAgent].settingsFile = ""))
     => /\ ~call.threw
        /\ call.ret = <<>>
        /\ call.ops = {}
        /\ settingsFiles = call.before.files
        /\ dirs = call.before.dirs

C9_Witness ==
  /\ mcpPc[1] = "returned"
  /\ projectAgent = "nomcp"
  /\ \A k \in McpServerKeys : mcpCall[1].options[k] /\ ~TemplateMissing(k)
  /\ mcpCall[1].ret = <<>>
  /\ ".nomcp" \notin dirs

\* C10: every server key a configureMcp call returns is stored, for agent
\* 'opencode', under mcp.<key> as {type: 'local', command: [command, ...args]}
\* with environment = env exactly when the template has env, and for any
\* other agent under mcpServers.<key> as the template itself.
C10_ShapeConversion ==
  LET call == mcpCall[1]
  IN (mcpPc[1] = "returned" /\ Len(call.ret) > 0) =>
       LET document == settingsFiles[OwnSettingsPath].json
       IN \A i \in DOMAIN call.ret :
            LET key == call.ret[i]
                template == mcpTemplates[key].json
            IN IF projectAgent = "opencode"
                 THEN LET entry == document.mcp[key]
                      IN /\ DOMAIN entry \subseteq {"type", "command", "environment"}
                         /\ entry.type = "local"
                         /\ entry.command = <<template.command>> \o
                              (IF Has(template, "args") THEN template.args ELSE <<>>)
                         /\ Has(entry, "environment") <=> Has(template, "env")
                         /\ Has(template, "env") => entry.environment = template.env
                 ELSE document.mcpServers[key] = template

C10_Witness ==
  /\ mcpPc[1] = "returned"
  /\ projectAgent = "opencode"
  /\ mcpCall[1].ret = <<"github", "chromeDevtools">>
  /\ settingsFiles["opencode.json"].json.mcp["github"] =
       [type |-> "local", command |-> <<"npx", "-y", "server">>, environment |-> [TOKEN |-> "x"]]
  /\ settingsFiles["opencode.json"].json.mcp["chromeDevtools"] =
       [type |-> "local", command |-> <<"mcp-server">>]

(***************************************************************************)
(* Properties of skill installation                                        *)
(***************************************************************************)
Installable(sourceDir) == packageSkills[sourceDir] = "text"

\* Where the agent's transformer puts a skill, and what it holds once installed
ArtifactPath(skillName) ==
  IF TRANSFORMERS[projectAgent].flat
    THEN AGENTS[projectAgent].configDir \o "/rules/" \o skillName \o ".md"
    ELSE AGENTS[projectAgent].skillsDir \o "/" \o skillName \o "/SKILL.md"

ArtifactInstalled(skillName, sourceDir) ==
  /\ Has(projectFiles, ArtifactPath(skillName))
  /\ projectFiles[ArtifactPath(skillName)] =
       [text |-> sourceDir, rewritten |-> TRANSFORMERS[projectAgent].rewrites, rendered |-> TRUE]

InstallRunning == instPc \in {"skills", "stack", "post", "returned"} /\ ~instCall.threw

\* C5: installSkills attempts the requested skills one by one in request
\* order, whichever of them fail; the skills it has pushed are exactly the
\* processed ones whose source installs, in request order, each with its
\* artifact in place, and each failing one has a warning and no artifact.
C5_BatchFaultIsolation ==
  InstallRunning =>
    LET processed == SubSeq(instCall.skills, 1, instCall.i - 1)
        succeeded == SelectSeq(processed, Installable)
        failed == SelectSeq(processed, LAMBDA sk : ~Installable(sk))
    IN /\ instPc # "skills" => processed = instCall.skills
       /\ Len(instCall.attempted) >= Len(processed)
       /\ SubSeq(instCall.attempted, 1, Len(processed)) = processed
       /\ Len(instCall.installedSkills) >= Len(succeeded)
       /\ SubSeq(instCall.installedSkills, 1, Len(succeeded)) = succeeded
       /\ \A n \in DOMAIN instCall.installedSkills :
            n > Len(succeeded) => instCall.installedSkills[n] \notin BaseSkills
       /\ instCall.warnings = failed
       /\ \A n \in DOMAIN processed :
            IF Installable(processed[n])
              THEN ArtifactInstalled(processed[n], processed[n])
              ELSE ~Has(projectFiles, ArtifactPath(processed[n]))

C5_Witness ==
  /\ instPc = "returned"
  /\ instCall.skills = <<"s1", "s2", "s3">>
  /\ packageSkills["s1"] = "text" /\ packageSkills["s2"] = "missing" /\ packageSkills["s3"] = "text"
  /\ instCall.installedSkills = <<"s1", "s3">>
  /\ instCall.warnings = <<"s2">>
  /\ ArtifactInstalled("s3", "s3")

\* C6: when the stack's template directory lists several template skills and
\* one of them fails to install, the failure is reported as a warning and
\* every other template skill of the stack is installed and returned as
\* stack/templateSkillName.
C6_StackFaultIsolation ==
  (/\ instPc = "returned"
   /\ ~instCall.threw
   /\ instCall.stack # ""
   /\ templateDirs[instCall.stack].exists)
  => LET listing == templateDirs[instCall.stack].dirs
         Source(n) == PathJoin(TemplateDir(instCall.stack), listing[n])
         Key(n) == PathJoin(instCall.stack, listing[n])
         Returned == {instCall.installedSkills[m] : m \in DOMAIN instCall.installedSkills}
         Warned == {instCall.warnings[m] : m \in DOMAIN instCall.warnings}
     IN (Cardinality({n \in DOMAIN listing : ~Installable(Source(n))}) = 1) =>
          \A n \in DOMAIN listing :
            IF Installable(Source(n))
              THEN Key(n) \in Returned /\ ArtifactInstalled(listing[n], Source(n))
              ELSE Key(n) \in Warned \/ listing[n] \in Warned

\* C15: for an MCP-capable agent configureMcp returns, without an error,
\* exactly the server keys whose flag is set and whose template file reads,
\* in the order github, filesystem, postgres, chromeDevtools; after the call
\* every returned key is in the settings file's MCP map, and the call added
\* no key whose flag is not set.
C15_ReturnedKeys ==
  LET call == mcpCall[1]
      MapKeys(file) ==
        IF readJsonFile(file) # Null THEN EntryKeys(file.json, OwnMapKey) ELSE {}
  IN (/\ mcpPc[1] = "returned"
      /\ KnownAgent(projectAgent)
      /\ AGENTS[projectAgent].supportsMcp
      /\ AGENTS[projectAgent].settingsFile # "")
     => /\ ~call.threw
        /\ call.ret = SelectSeq(MCP_SERVER_KEYS,
                                LAMBDA k : call.options[k] /\ ~TemplateMissing(k))
        /\ \A i \in DOMAIN call.ret : call.ret[i] \in MapKeys(settingsFiles[OwnSettingsPath])
        /\ \A k \in MapKeys(settingsFiles[OwnSettingsPath])
                      \ MapKeys(call.before.files[OwnSettingsPath]) : call.options[k]

C15_Witness ==
  /\ mcpPc[1] = "returned"
  /\ projectAgent = "cursor"
  /\ mcpCall[1].options =
       [github |-> TRUE, filesystem |-> TRUE, postgres |-> FALSE, chromeDevtools |-> TRUE]
  /\ TemplateMissing("filesystem") /\ ~TemplateMissing("postgres")
  /\ mcpCall[1].ret = <<"github", "chromeDevtools">>
  /\ DOMAIN settingsFiles[".cursor/mcp.json"].json.mcpServers = {"github", "chromeDevtools"}

\* C16: loadConfig returns null when no configuration file exists and a
\* configuration holding every schema key, never null, when a file exists
\* (the empty object {} included); a loadConfig that follows a saveConfig
\* never returns null.
C16_NullOnlyWithoutFile ==
  (cfgOps # <<>> /\ cfgOps[Len(cfgOps)] = "load")
  => /\ ~fileExists(configFile) => loaded.kind = "null"
     /\ fileExists(configFile) =>
          /\ loaded.kind = "config"
          /\ SchemaKeys \subseteq DOMAIN loaded.value
     /\ cfgOps = <<"save", "load">> => loaded.kind = "config"

C13_HookOnceAfterSkills ==
  LET hooks == SelectSeq(instCall.events, LAMBDA e : e.op = "postInstall")
  IN /\ instPc \in {"skills", "stack", "post"} => hooks = <<>> /\ instCall.hookCalls = 0
     /\ (instPc = "returned" /\ ~instCall.threw /\ getTransformer(projectAgent).postInstall)
        => /\ instCall.hookCalls = 1
           /\ hooks = <<HookEvent>>
           /\ instCall.events[Len(instCall.events)] = HookEvent
           /\ Len(instCall.events) = Len(instCall.attempted) + 1
           /\ instCall.i = Len(instCall.skills) + 1

C13_Witness ==
  /\ instPc = "returned"
  /\ projectAgent = "cursor"
  /\ instCall.skills = <<>> /\ instCall.stack = ""
  /\ instCall.installedSkills = <<>>
  /\ instCall.events = <<HookEvent>>

\* C17: installSkills for an agent id without a profile fails with an
\* error: it returns no list, warns about nothing, and has neither created
\* the skills directory nor written a skill file.
C17_UnknownAgentFailsFirst ==
  (instPc = "returned" /\ ~KnownAgent(projectAgent))
  => /\ instCall.threw
     /\ instCall.installedSkills = <<>>
     /\ instCall.warnings = <<>> /\ instCall.attempted = <<>>
     /\ dirs = {"."}
     /\ projectFiles = EmptyObject

C17_Witness ==
  /\ instPc = "returned"
  /\ projectAgent = "no-such-agent"
  /\ instCall.skills = <<"s1", "s2">>
  /\ packageSkills["s1"] = "text"
  /\ instCall.threw

(***************************************************************************)
(* Properties of updateSkills and reconcileCustomSkills                    *)
(***************************************************************************)
\* A key reconcileCustomSkills can split into a stack and a template skill
WellFormedKey(parts) == Len(parts) >= 2 /\ parts[1] # "" /\ parts[2] # ""

KeySourceDir(parts) == "_templates/" \o parts[1] \o "/" \o parts[2]

Reinstallable(parts) == WellFormedKey(parts) /\ SkillMdOf(KeySourceDir(parts)) = "text"

ExpectedWarning(parts) ==
  IF ~WellFormedKey(parts) THEN "Invalid custom skill entry"
  ELSE IF SkillMdOf(KeySourceDir(parts)) = "missing" THEN "Custom skill source not found"
  ELSE "Could not reconcile custom skill"

\* C11: reconcileCustomSkills returns, in input order, exactly the keys
\* whose template source exists and reinstalls without error; every other
\* key (source gone, reinstall failed, malformed shape) is absent from the
\* result and has exactly one warning, and the keys after it are processed.
C11_ReconcileResult ==
  instPc = "updated" =>
    LET good == SelectSeq(instCall.customSkills, Reinstallable)
        bad == SelectSeq(instCall.customSkills, LAMBDA key : ~Reinstallable(key))
    IN /\ instCall.reconciledCustomSkills = [i \in DOMAIN good |-> KeyString(good[i])]
       /\ instCall.reconcileWarnings =
            [i \in DOMAIN bad |-> [key |-> KeyString(bad[i]), warning |-> ExpectedWarning(bad[i])]]
       /\ \A i \in DOMAIN good :
            Has(projectFiles, ArtifactPath(good[i][2]))

C11_Witness ==
  /\ instPc = "updated"
  /\ projectAgent = "opencode"
  /\ instCall.customSkills = <<<<"web", "">>, <<"web", "t2">>>>
  /\ instCall.reconciledCustomSkills = <<"web/t2">>
  /\ Len(instCall.reconcileWarnings) = 1
  /\ Has(projectFiles, ".opencode/skills/t2/SKILL.md")

\* C14: updateSkills attempts every listed directory of the package's
\* skills directory whose name does not start with '_', recorded in
\* config.installedSkills or not, then reconciles every recorded key that
\* contains '/', and returns the base skills that installed followed by the
\* custom keys that reconciled.
C14_UpdateContract ==
  instPc = "updated" =>
    LET base == SelectSeq(packageDirs, LAMBDA dir : dir # "_templates")
        custom == SelectSeq(instCall.recorded, LAMBDA key : Len(key) > 1)
        good == SelectSeq(custom, Reinstallable)
    IN /\ instCall.attempted = base
       /\ instCall.installedSkills = SelectSeq(base, Installable)
       /\ \A i \in DOMAIN base : Installable(base[i]) => ArtifactInstalled(base[i], base[i])
       /\ instCall.customSkills = custom
       /\ Len(instCall.reconciledCustomSkills) + Len(instCall.reconcileWarnings) = Len(custom)
       /\ instCall.ret =
            SelectSeq(base, Installable) \o [i \in DOMAIN good |-> KeyString(good[i])]

C14_Witness ==
  /\ instPc = "updated"
  /\ projectAgent = "claude"
  /\ packageDirs = <<"_templates", "s1", "s3">>
  /\ instCall.recorded = <<<<"web", "t1">>>>
  /\ packageSkills["s3"] = "missing"
  /\ instCall.ret = <<"s1", "web/t1">>
  /\ ArtifactInstalled("s1", "s1")

\* C20: in one updateSkills call the postInstall hook runs exactly once and
\* only after every skill of the update, base and reconciled custom alike:
\* no skill artifact is written after the hook has run.
C20_HookAfterEverySkill ==
  LET events == instCall.events
  IN /\ \A i, j \in DOMAIN events :
          (i < j /\ events[i] = HookEvent) => ~(events[j].op = "install" /\ events[j].ok)
     /\ (instPc = "updated" /\ getTransformer(projectAgent).postInstall)
          => Len(SelectSeq(events, LAMBDA e : e = HookEvent)) = 1

(***************************************************************************)
(* Properties of concurrent MCP provisioning                               *)
(***************************************************************************)
\* The invocation whose write of the settings file is the latest
LastWriter(p) ==
  /\ mcpCall[p].writeNo > 0
  /\ \A q \in Procs : mcpCall[q].writeNo <= mcpCall[p].writeNo

\* C18: with two configureMcp invocations interleaved on one settings file,
\* the file holds exactly the document of the invocation that wrote last:
\* what that invocation read, merged with its own selected entries, whatever
\* the other invocation wrote in between.
C18_LastWriterWins ==
  \A p \in Procs :
    LastWriter(p) =>
      settingsFiles[OwnSettingsPath] =
        JsonFile(mergeServers(mcpCall[p].settings, mcpCall[p].selected,
                              projectAgent = "opencode"))

\* Both invocations have returned the key they configured; the entry of the
\* earlier writer is not in the file
C18_Witness ==
  /\ mcpPc = <<"returned", "returned">>
  /\ mcpCall[1].writeNo = 1 /\ mcpCall[2].writeNo = 2
  /\ mcpCall[1].ret = <<"github">> /\ mcpCall[2].ret = <<"postgres">>
  /\ projectAgent = "claude"
  /\ DOMAIN settingsFiles[".mcp.json"].json.mcpServers = {"custom", "postgres"}

(***************************************************************************)
(* Properties of an interrupted installation                               *)
(***************************************************************************)
\* The files a single uninterrupted installSkills call leaves, computed with
\* installSkillWithTransformer as a whole
RECURSIVE FilesAfterSkills(_, _, _)
FilesAfterSkills(files, skills, i) ==
  IF i > Len(skills) THEN files
  ELSE FilesAfterSkills(
         installSkillWithTransformer(files, SkillMdOf(skills[i]), skills[i], skills[i],
                                     instCall.skillsDir, projectAgent).files,
         skills, i + 1)

RECURSIVE FilesAfterStack(_, _, _, _)
FilesAfterStack(files, stack, templateSkills, j) ==
  IF j > Len(templateSkills) THEN files
  ELSE LET sourceDir == PathJoin(TemplateDir(stack), templateSkills[j])
           outcome == installSkillWithTransformer(files, SkillMdOf(sourceDir), sourceDir,
                        templateSkills[j], instCall.skillsDir, projectAgent)
       IN IF outcome.threw THEN files
          ELSE FilesAfterStack(outcome.files, stack, templateSkills, j + 1)

UninterruptedFiles ==
  LET afterSkills == FilesAfterSkills(EmptyObject, instCall.skills, 1)
  IN IF instCall.stack # "" /\ templateDirs[instCall.stack].exists
       THEN FilesAfterStack(afterSkills, instCall.stack, templateDirs[instCall.stack].dirs, 1)
       ELSE afterSkills

\* C19: when an installSkills run is terminated between two filesystem
\* steps and installSkills is run again with the same options to completion,
\* the project holds the files, with the contents, that one uninterrupted
\* run leaves.
C19_RerunAfterTermination ==
  (instPc = "returned" /\ instCall.interrupted /\ ~instCall.threw)
    => projectFiles = UninterruptedFiles

\* A run was terminated and the re-run of two skills and the stack has
\* completed with every artifact rewritten and rendered
C19_Witness ==
  /\ instPc = "returned" /\ instCall.interrupted
  /\ projectAgent = "opencode"
  /\ instCall.skills = <<"s1", "s2">> /\ instCall.stack = "web"
  /\ instCall.installedSkills = <<"s1", "s2", "web/t1", "web/t2">>
  /\ projectFiles[".opencode/skills/s2/SKILL.md"] =
       [text |-> "s2", rewritten |-> TRUE, rendered |-> TRUE]

====
